---- MODULE Spec2Model ----
(***************************************************************************)
(* State-machine model of server.js, the USPTO data backend: the TTL cache *)
(* (cache, getCached, setCache), the client override store                  *)
(* (clientDatabase, normalizeClientName, the /admin/clients handlers) and   *)
(* the two search handlers (/api/patents/search, /api/trademarks/search)    *)
(* with their single upstream call each.                                    *)
(*                                                                          *)
(* JavaScript strings that the code inspects character by character (names, *)
(* trademark status texts, cache keys) are sequences of one-character       *)
(* strings.  Strings the code only copies or tests for truthiness (dates,   *)
(* numbers, titles) are TLA+ strings.  A JavaScript undefined property is a  *)
(* field that the record does not have.                                     *)
(***************************************************************************)
EXTENDS Integers, Sequences, FiniteSets, TLC

VARIABLES
    clientDatabase, \* the override store: normalized key -> client record
    cache,          \* the Map: cache key -> [data, timestamp]
    now,            \* Date.now(), in milliseconds since the process started
    pending,        \* search requests suspended at their await, by slot
    last,           \* the handler step that produced the current state
    steps           \* handler steps and clock advances so far

vars == <<clientDatabase, cache, now, pending, last, steps>>

----------------------------------------------------------------------------
(* Bounds of the exploration *)

MaxSteps == 4
MaxPending == 2

----------------------------------------------------------------------------
(* JavaScript strings *)

UpperCase ==
    <<"A","B","C","D","E","F","G","H","I","J","K","L","M",
      "N","O","P","Q","R","S","T","U","V","W","X","Y","Z">>

LowerCase ==
    <<"a","b","c","d","e","f","g","h","i","j","k","l","m",
      "n","o","p","q","r","s","t","u","v","w","x","y","z">>

Digits == {"0","1","2","3","4","5","6","7","8","9"}

Range(s) == {s[i] : i \in DOMAIN s}

\* String.prototype.toLowerCase on one character
toLowerChar(c) ==
    IF \E i \in DOMAIN UpperCase : UpperCase[i] = c
    THEN LowerCase[CHOOSE i \in DOMAIN UpperCase : UpperCase[i] = c]
    ELSE c

\* String.prototype.toLowerCase
toLowerCase(s) == [i \in DOMAIN s |-> toLowerChar(s[i])]

\* the character class [a-z0-9]
IsLowerAlnum(c) == c \in Range(LowerCase) \cup Digits

\* String.prototype.includes
includes(s, sub) ==
    \E i \in 0..(Len(s) - Len(sub)) : SubSeq(s, i + 1, i + Len(sub)) = sub

\* name.toLowerCase() instead of the full normalization
lowerOnlyClientName(name) == toLowerCase(name)

\* name.replace(/[^a-z0-9]/g, '') with no lowering of the case
stripOnlyClientName(name) == SelectSeq(name, IsLowerAlnum)

\* name.toLowerCase().replace(/[^a-z0-9]/g, '')
normalizeClientName(name) == SelectSeq(toLowerCase(name), IsLowerAlnum)

----------------------------------------------------------------------------
(* The names, records and upstream answers the exploration draws from *)

KidneyAide == <<"K","i","d","n","e","y","A","i","d","e">>
kidneyaide == <<"k","i","d","n","e","y","a","i","d","e">>
Acme == <<"A","c","m","e">>
ACME == <<"A","C","M","E">>
AcmePunct == <<"A","C","-","m","e","!">>
acme == <<"a","c","m","e">>
constructor == <<"c","o","n","s","t","r","u","c","t","o","r">>
registered == <<"r","e","g","i","s","t","e","r","e","d">>
Registered == <<"R","e","g","i","s","t","e","r","e","d">>
NotRegisteredYet == <<"U","N","R","E","G","I","S","T","E","R","E","D">>
Dead == <<"D","e","a","d">>

\* JavaScript null and undefined where they stand for a string the code only copies
Null == "null"
Undefined == "undefined"

\* a value that is falsy in JavaScript, among the copied strings
Falsy(v) == v \in {Null, Undefined, ""}

\* what getCached returns on a miss
JsNull == [null |-> TRUE]

\* what reading a property that is nowhere on the prototype chain gives
JsUndefined == [undefined |-> TRUE]

\* Object.prototype.constructor: the one inherited property of the object
\* literal whose name survives normalizeClientName
ObjectFunction == [function |-> "Object"]

InheritedKeys == {constructor}

SeedPatents ==
    << [patent_number |-> "18/751,463", patent_title |-> "Non-Provisional Patent Application",
        app_date |-> "2024-06-12", patent_date |-> Null,
        status |-> "Pending - Non-Provisional", type |-> "Non-Provisional"],
       [patent_number |-> "63/523,059", patent_title |-> "Provisional Patent Application",
        app_date |-> "2023-06-23", patent_date |-> Null,
        status |-> "Provisional Application", type |-> "Provisional"],
       [patent_number |-> "PCT/US24/35195", patent_title |-> "PCT International Application",
        app_date |-> "2024-06-23", patent_date |-> Null,
        status |-> "PCT Application", type |-> "PCT"],
       [patent_number |-> "IL-XXXXX", patent_title |-> "National Stage Application - Israel",
        app_date |-> "2024-08-15", patent_date |-> Null,
        status |-> "National Stage - Israel", type |-> "Foreign National"] >>

SeedTrademarks ==
    << [serialNumber |-> "97665342", mark |-> "KIDNEYAIDE", filingDate |-> "2022-11-15",
        status |-> Registered, registrationDate |-> "2023-08-20"],
       [serialNumber |-> "97762036", mark |-> "KIDNEYAIDE", filingDate |-> "2023-01-20",
        status |-> Registered, registrationDate |-> "2023-09-10"],
       [serialNumber |-> "97762371", mark |-> "KIDNEYAIDE", filingDate |-> "2023-01-21",
        status |-> Registered, registrationDate |-> "2023-09-15"] >>

\* the object literal the process starts with
SeedDatabase ==
    kidneyaide :> [name |-> KidneyAide, patents |-> SeedPatents, trademarks |-> SeedTrademarks]

\* patent records an operator may post
GrantedPatent ==
    [patent_number |-> "11,000,001", patent_title |-> "Widget", app_date |-> "2019-01-02",
     patent_date |-> "2021-03-04", status |-> "Granted"]

PendingPatent ==
    [patent_number |-> "17/000,002", patent_title |-> "Gadget", app_date |-> "2022-05-06",
     patent_date |-> Null, status |-> "Pending"]

\* trademark records an operator may post
LiveMark ==
    [serialNumber |-> "90000001", mark |-> "ACME", filingDate |-> "2020-02-03",
     status |-> NotRegisteredYet]

DeadMark ==
    [serialNumber |-> "90000002", mark |-> "ACME", filingDate |-> "2018-02-03",
     status |-> Dead]

NoStatusMark ==
    [serialNumber |-> "90000003", mark |-> "ACME", filingDate |-> "2021-02-03"]

\* records of a PatentsView answer
PvGranted ==
    [patent_number |-> "10,000,003", patent_title |-> "Sprocket",
     patent_date |-> "2020-07-08", app_date |-> "2018-09-10"]

PvPending ==
    [patent_number |-> "10,000,004", patent_title |-> "Cog",
     patent_date |-> Null, app_date |-> "2023-11-12"]

\* records of a TSDR answer
TsdrRegistered ==
    [applicationSerialNumber |-> "88000005", registrationNumber |-> "6000005",
     markLiteralElementText |-> "ACME", markDrawingCode |-> "4",
     applicationFilingDate |-> "2019-04-05",
     markCurrentStatusExternalDescriptionText |-> Registered]

TsdrBare ==
    [applicationSerialNumber |-> Undefined, registrationNumber |-> "6000006",
     markLiteralElementText |-> Undefined, markDrawingCode |-> "3",
     applicationFilingDate |-> "2017-04-05"]

----------------------------------------------------------------------------
(* The inputs *)

\* req.query of a patent search
PatentQueries ==
    {[x \in {} |-> TRUE], [assignee |-> <<>>]}
        \cup {[assignee |-> n] : n \in {KidneyAide, Acme, ACME, AcmePunct, constructor}}

\* req.query of a trademark search
TrademarkQueries ==
    {[x \in {} |-> TRUE], [owner |-> <<>>]}
        \cup {[owner |-> n] : n \in {KidneyAide, Acme}}

\* req.body of POST /admin/clients
ClientBodies ==
    { [patents |-> <<GrantedPatent>>],
      [name |-> <<>>, patents |-> <<GrantedPatent>>, trademarks |-> <<>>],
      [name |-> Acme],
      [name |-> Acme, patents |-> <<PendingPatent, GrantedPatent>>,
       trademarks |-> <<LiveMark, DeadMark>>],
      [name |-> AcmePunct, patents |-> <<>>, trademarks |-> <<NoStatusMark>>],
      [name |-> KidneyAide, trademarks |-> <<LiveMark>>],
      [name |-> constructor, patents |-> <<GrantedPatent>>] }

\* req.params.name of DELETE /admin/clients/:name
DeleteNames == {KidneyAide, ACME, constructor}

\* what the awaited axios call to PatentsView may settle with
PatentsViewAnswers ==
    { [error |-> "timeout of 20000ms exceeded"],
      [data |-> [count |-> 0]],
      [data |-> [patents |-> <<>>]],
      [data |-> [patents |-> <<PvGranted>>]],
      [data |-> [patents |-> <<PvPending, PvGranted>>]],
      [data |-> [patents |-> <<JsNull>>]] }

\* what the awaited axios call to TSDR may settle with
TsdrAnswers ==
    { [error |-> "Request failed with status code 503"],
      [data |-> [response |-> [numFound |-> 0]]],
      [data |-> [response |-> [docs |-> <<TsdrRegistered, TsdrBare>>]]],
      [data |-> [response |-> [docs |-> <<JsNull>>]]] }

----------------------------------------------------------------------------
(* The TTL cache *)

CACHE_TTL == 1000 * 60 * 60

\* how far the clock may move between two handler steps
ClockSteps == {CACHE_TTL - 1, CACHE_TTL}

\* getCached returning the Map entry instead of its data
getCachedEntry(key) ==
    IF key \in DOMAIN cache /\ now - cache[key].timestamp < CACHE_TTL
    THEN cache[key]
    ELSE JsNull

\* getCached with the age compared by <= instead of <
getCachedInclusive(key) ==
    IF key \in DOMAIN cache /\ now - cache[key].timestamp <= CACHE_TTL
    THEN cache[key].data
    ELSE JsNull

\* getCached(key): the stored data while now - timestamp < CACHE_TTL, else null
getCached(key) ==
    IF key \in DOMAIN cache /\ now - cache[key].timestamp < CACHE_TTL
    THEN cache[key].data
    ELSE JsNull

\* a Map cleared before the set
setCacheDropsOthers(key, data) == (key :> [data |-> data, timestamp |-> now])

\* a set that keeps the entry a key already has
setCacheIfAbsent(key, data) == cache @@ (key :> [data |-> data, timestamp |-> now])

\* setCache(key, data): the Map after cache.set(key, {data, timestamp: Date.now()})
setCache(key, data) == (key :> [data |-> data, timestamp |-> now]) @@ cache

----------------------------------------------------------------------------
(* The override store *)

\* clientDatabase[key]: an own property, else one inherited from
\* Object.prototype, else undefined
Lookup(key) ==
    IF key \in DOMAIN clientDatabase THEN clientDatabase[key]
    ELSE IF key \in InheritedKeys THEN ObjectFunction
    ELSE JsUndefined

\* the truthiness test if (clientDatabase[key])
Truthy(v) == v \notin {JsNull, JsUndefined}

\* a test for undefined alone, which lets the empty string through
MissingStrict(obj, field) == field \notin DOMAIN obj

\* !name, !assignee, !owner: the property is missing or the empty string
Missing(obj, field) == field \notin DOMAIN obj \/ obj[field] = <<>>

\* patents || [], trademarks || []
OrEmpty(obj, field) == IF field \in DOMAIN obj THEN obj[field] ELSE <<>>

\* a || b on copied strings
Or(a, b) == IF Falsy(a) THEN b ELSE a

----------------------------------------------------------------------------
(* The aggregates *)

\* a test for the property being there, which takes null for a date
HasPatentDateProperty(p) == "patent_date" \in DOMAIN p

\* p => p.patent_date
HasPatentDate(p) == "patent_date" \in DOMAIN p /\ ~Falsy(p.patent_date)

\* tm => tm.status && tm.status.includes('registered'), the case as it is
IsRegisteredCaseSensitive(tm) ==
    /\ "status" \in DOMAIN tm
    /\ tm.status # <<>>
    /\ includes(tm.status, registered)

\* tm => tm.status && tm.status.toLowerCase().includes('registered')
IsRegistered(tm) ==
    /\ "status" \in DOMAIN tm
    /\ tm.status # <<>>
    /\ includes(toLowerCase(tm.status), registered)

\* patents.filter(p => p.patent_date).length
CountGranted(patents) == Cardinality({i \in DOMAIN patents : HasPatentDate(patents[i])})

\* trademarks.filter(tm => ...).length
CountRegistered(trademarks) ==
    Cardinality({i \in DOMAIN trademarks : IsRegistered(trademarks[i])})

\* p => ({...p, status: p.patent_date ? 'Granted' : 'Pending'})
MapPatent(p) ==
    [f \in DOMAIN p \cup {"status"} |->
        IF f = "status" THEN (IF HasPatentDate(p) THEN "Granted" ELSE "Pending") ELSE p[f]]

\* the TSDR document mapped to the canonical trademark record
MapTrademark(tm) ==
    LET base == [serialNumber |-> Or(tm.applicationSerialNumber, tm.registrationNumber),
                 mark |-> Or(tm.markLiteralElementText, tm.markDrawingCode),
                 filingDate |-> tm.applicationFilingDate]
    IN  IF "markCurrentStatusExternalDescriptionText" \in DOMAIN tm
        THEN [f \in DOMAIN base \cup {"status"} |->
                IF f = "status" THEN tm.markCurrentStatusExternalDescriptionText ELSE base[f]]
        ELSE base

\* the client branch of the patent handler listing the granted patents only
ClientPatentsResultGrantedOnly(patents) ==
    LET granted == CountGranted(patents)
    IN  [total |-> Len(patents), granted |-> granted,
         applications |-> Len(patents) - granted,
         list |-> SelectSeq(patents, HasPatentDate), source |-> "client_database"]

\* the client branch of the patent handler with applications counting every record
ClientPatentsResultAll(patents) ==
    [total |-> Len(patents), granted |-> CountGranted(patents),
     applications |-> Len(patents), list |-> patents, source |-> "client_database"]

\* the result object of the client branch of the patent handler
ClientPatentsResult(patents) ==
    LET granted == CountGranted(patents)
    IN  [total |-> Len(patents), granted |-> granted,
         applications |-> Len(patents) - granted, list |-> patents,
         source |-> "client_database"]

\* the result object of the PatentsView branch, from data.patents
ApiPatentsResult(rawPatents) ==
    LET patents == [i \in DOMAIN rawPatents |-> MapPatent(rawPatents[i])]
        granted == CountGranted(patents)
    IN  [total |-> Len(patents), granted |-> granted,
         applications |-> Len(patents) - granted, list |-> patents,
         source |-> "uspto_api"]

\* the result object of the client branch of the trademark handler
ClientTrademarksResult(trademarks) ==
    LET registeredN == CountRegistered(trademarks)
    IN  [total |-> Len(trademarks), registered |-> registeredN,
         applications |-> Len(trademarks) - registeredN, list |-> trademarks,
         source |-> "client_database"]

\* the result object of the TSDR branch, from data.response.docs
ApiTrademarksResult(docs) ==
    LET trademarks == [i \in DOMAIN docs |-> MapTrademark(docs[i])]
        registeredN == CountRegistered(trademarks)
    IN  [total |-> Len(trademarks), registered |-> registeredN,
         applications |-> Len(trademarks) - registeredN, list |-> trademarks,
         source |-> "uspto_api"]

\* the final res.json of the patent handler
NoPatents ==
    [total |-> 0, granted |-> 0, applications |-> 0, list |-> <<>>, source |-> "none",
     message |-> "No patents found in USPTO APIs. Add client to database for accurate data."]

\* the final res.json of the trademark handler
NoTrademarks ==
    [total |-> 0, registered |-> 0, applications |-> 0, list |-> <<>>, source |-> "none",
     message |-> "No trademarks found in USPTO APIs. Add client to database for accurate data."]

----------------------------------------------------------------------------
(* The search handlers up to their first await *)

PatentsPrefix == <<"p","a","t","e","n","t","s",":">>
TrademarksPrefix == <<"t","r","a","d","e","m","a","r","k","s",":">>

\* `patents:${assignee.toLowerCase()}`
PatentsCacheKey(assignee) == PatentsPrefix \o toLowerCase(assignee)

\* `trademarks:${owner.toLowerCase()}`
TrademarksCacheKey(owner) == TrademarksPrefix \o toLowerCase(owner)

\* the 400 answer of a handler
Rejected(message) ==
    [path |-> "rejected", status |-> 400, body |-> [error |-> message], cacheKey |-> <<>>,
     store |-> FALSE, reads |-> 0, lookups |-> 0, calls |-> <<>>]

\* the patent handler from its entry to its first return or to its await:
\* which return it takes, what it sends, whether it calls setCache, and how
\* often it read the cache, read the override store and called upstream
PatentsSearchBegin(query) ==
    IF Missing(query, "assignee") THEN Rejected("Assignee parameter required")
    ELSE
    LET assignee == query.assignee
        cacheKey == PatentsCacheKey(assignee)
        cached == getCached(cacheKey)
        normalizedName == normalizeClientName(assignee)
        client == Lookup(normalizedName)
    IN  IF cached # JsNull
        THEN [path |-> "cache", status |-> 200, body |-> cached, cacheKey |-> cacheKey,
              store |-> FALSE, reads |-> 1, lookups |-> 0, calls |-> <<>>]
        ELSE IF Truthy(client)
        THEN IF "patents" \in DOMAIN client
             THEN [path |-> "client_database", status |-> 200,
                   body |-> ClientPatentsResult(client.patents), cacheKey |-> cacheKey,
                   store |-> TRUE, reads |-> 1, lookups |-> 1, calls |-> <<>>]
             ELSE [path |-> "thrown", status |-> 0, body |-> JsUndefined,
                   cacheKey |-> cacheKey,
                   store |-> FALSE, reads |-> 1, lookups |-> 1, calls |-> <<>>]
        ELSE [path |-> "await", status |-> 0, body |-> JsUndefined, cacheKey |-> cacheKey,
              store |-> FALSE, reads |-> 1, lookups |-> 1, calls |-> <<"patentsview">>]

\* the trademark handler from its entry to its first return or to its await
TrademarksSearchBegin(query) ==
    IF Missing(query, "owner") THEN Rejected("Owner parameter required")
    ELSE
    LET owner == query.owner
        cacheKey == TrademarksCacheKey(owner)
        cached == getCached(cacheKey)
        normalizedName == normalizeClientName(owner)
        client == Lookup(normalizedName)
    IN  IF cached # JsNull
        THEN [path |-> "cache", status |-> 200, body |-> cached, cacheKey |-> cacheKey,
              store |-> FALSE, reads |-> 1, lookups |-> 0, calls |-> <<>>]
        ELSE IF Truthy(client)
        THEN IF "trademarks" \in DOMAIN client
             THEN [path |-> "client_database", status |-> 200,
                   body |-> ClientTrademarksResult(client.trademarks),
                   cacheKey |-> cacheKey,
                   store |-> TRUE, reads |-> 1, lookups |-> 1, calls |-> <<>>]
             ELSE [path |-> "thrown", status |-> 0, body |-> JsUndefined,
                   cacheKey |-> cacheKey,
                   store |-> FALSE, reads |-> 1, lookups |-> 1, calls |-> <<>>]
        ELSE [path |-> "await", status |-> 0, body |-> JsUndefined, cacheKey |-> cacheKey,
              store |-> FALSE, reads |-> 1, lookups |-> 1, calls |-> <<"tsdr">>]

----------------------------------------------------------------------------
(* The search handlers after their await *)

\* pvResponse.data?.patents?.length > 0, false too when the call threw
HasPatents(answer) ==
    /\ "data" \in DOMAIN answer
    /\ "patents" \in DOMAIN answer.data
    /\ Len(answer.data.patents) > 0

\* tsdrResponse.data?.response?.docs?.length > 0, false too when the call threw
HasDocs(answer) ==
    /\ "data" \in DOMAIN answer
    /\ "response" \in DOMAIN answer.data
    /\ "docs" \in DOMAIN answer.data.response
    /\ Len(answer.data.response.docs) > 0

\* the map callback reads a property of a null element: a TypeError inside
\* the try block
MapThrows(records) == \E i \in DOMAIN records : records[i] = JsNull

\* the patent handler without its try/catch: a failed call ends in a 500
PatentsSearchEndThrows(req, answer) ==
    IF "error" \in DOMAIN answer
    THEN [path |-> "thrown", status |-> 500, body |-> JsUndefined, store |-> FALSE]
    ELSE IF HasPatents(answer) /\ ~MapThrows(answer.data.patents)
    THEN [path |-> "uspto_api", status |-> 200,
          body |-> ApiPatentsResult(answer.data.patents), store |-> TRUE]
    ELSE [path |-> "none", status |-> 200, body |-> NoPatents, store |-> FALSE]

\* the patent handler from the settling of its upstream call to its return
PatentsSearchEnd(req, answer) ==
    IF HasPatents(answer) /\ ~MapThrows(answer.data.patents)
    THEN [path |-> "uspto_api", status |-> 200,
          body |-> ApiPatentsResult(answer.data.patents), store |-> TRUE]
    ELSE [path |-> "none", status |-> 200, body |-> NoPatents, store |-> FALSE]

\* the trademark handler from the settling of its upstream call to its return
TrademarksSearchEnd(req, answer) ==
    IF HasDocs(answer) /\ ~MapThrows(answer.data.response.docs)
    THEN [path |-> "uspto_api", status |-> 200,
          body |-> ApiTrademarksResult(answer.data.response.docs), store |-> TRUE]
    ELSE [path |-> "none", status |-> 200, body |-> NoTrademarks, store |-> FALSE]

----------------------------------------------------------------------------
(* The admin handlers *)

\* app.post('/admin/clients') inserting only: an existing record is kept
AddClientKeepsExisting(body) ==
    IF Missing(body, "name")
    THEN [status |-> 400, body |-> [error |-> "Client name is required"],
          database |-> clientDatabase]
    ELSE
    LET key == normalizeClientName(body.name)
        record == [name |-> body.name, patents |-> OrEmpty(body, "patents"),
                   trademarks |-> OrEmpty(body, "trademarks")]
    IN  [status |-> 200,
         body |-> [success |-> TRUE, message |-> "Client added successfully", key |-> key],
         database |-> clientDatabase @@ (key :> record)]

\* app.post('/admin/clients'): what it sends and the override store it leaves
AddClient(body) ==
    IF Missing(body, "name")
    THEN [status |-> 400, body |-> [error |-> "Client name is required"],
          database |-> clientDatabase]
    ELSE
    LET key == normalizeClientName(body.name)
        record == [name |-> body.name, patents |-> OrEmpty(body, "patents"),
                   trademarks |-> OrEmpty(body, "trademarks")]
    IN  [status |-> 200,
         body |-> [success |-> TRUE, message |-> "Client added successfully", key |-> key],
         database |-> (key :> record) @@ clientDatabase]

\* a delete that answers success and leaves the record where it is
DeleteClientKeepsRecord(name) ==
    LET key == normalizeClientName(name)
    IN  IF Truthy(Lookup(key))
        THEN [status |-> 200, body |-> [success |-> TRUE, message |-> "Client deleted"],
              database |-> clientDatabase]
        ELSE [status |-> 404, body |-> [error |-> "Client not found"],
              database |-> clientDatabase]

\* app.delete('/admin/clients/:name'): what it sends and the override store it
\* leaves; delete removes an own property and nothing else
DeleteClient(name) ==
    LET key == normalizeClientName(name)
    IN  IF Truthy(Lookup(key))
        THEN [status |-> 200, body |-> [success |-> TRUE, message |-> "Client deleted"],
              database |-> [k \in DOMAIN clientDatabase \ {key} |-> clientDatabase[k]]]
        ELSE [status |-> 404, body |-> [error |-> "Client not found"],
              database |-> clientDatabase]

----------------------------------------------------------------------------
(* The state machine *)

Idle == [handler |-> "idle"]

Slots == 1..MaxPending

FreeSlots == {i \in Slots : pending[i] = Idle}

\* what a handler whose async function threw answers: nothing (the promise is
\* rejected and nobody handles it) or the framework's 500
ThrownStatus == {0, 500}

\* the Map entry under key, as cache.get(key) gives it
Entry(key) == IF key \in DOMAIN cache THEN cache[key] ELSE JsUndefined

\* the exploration stops after MaxSteps steps
Step == steps < MaxSteps /\ steps' = steps + 1

Init ==
    /\ clientDatabase = SeedDatabase
    /\ cache = [k \in {} |-> JsUndefined]
    /\ now = 0
    /\ pending = [i \in Slots |-> Idle]
    /\ last = [op |-> "listen"]
    /\ steps = 0

\* one run of a search handler up to its first return or its await
Begin(handler, query, b) ==
    /\ Step
    /\ IF b.path = "await"
       THEN /\ FreeSlots # {}
            /\ LET slot == CHOOSE i \in FreeSlots : \A j \in FreeSlots : i <= j
               IN  pending' = [pending EXCEPT ![slot] =
                        [handler |-> handler, query |-> query, cacheKey |-> b.cacheKey,
                         calls |-> b.calls]]
       ELSE pending' = pending
    /\ cache' = IF b.store THEN setCache(b.cacheKey, b.body) ELSE cache
    /\ \E st \in (IF b.path = "thrown" THEN ThrownStatus ELSE {b.status}) :
         last' = [op |-> handler,
                  phase |-> IF b.path = "await" THEN "await" ELSE "sync",
                  query |-> query, path |-> b.path, status |-> st, body |-> b.body,
                  cacheKey |-> b.cacheKey, found |-> Entry(b.cacheKey),
                  reads |-> b.reads, writes |-> IF b.store THEN 1 ELSE 0,
                  lookups |-> b.lookups, calls |-> b.calls]
    /\ UNCHANGED <<clientDatabase, now>>

\* the rest of a search handler once its upstream call has settled
End(slot, answer, e) ==
    LET req == pending[slot]
    IN  /\ Step
        /\ pending' = [pending EXCEPT ![slot] = Idle]
        /\ cache' = IF e.store THEN setCache(req.cacheKey, e.body) ELSE cache
        /\ last' = [op |-> req.handler, phase |-> "resumed", query |-> req.query,
                    answer |-> answer, path |-> e.path, status |-> e.status,
                    body |-> e.body, cacheKey |-> req.cacheKey,
                    found |-> Entry(req.cacheKey),
                    reads |-> 1, writes |-> IF e.store THEN 1 ELSE 0,
                    lookups |-> 1, calls |-> req.calls]
        /\ UNCHANGED <<clientDatabase, now>>

\* GET /api/patents/search
SearchPatents(query) == Begin("patents", query, PatentsSearchBegin(query))

\* the PatentsView call of a suspended patent search settles
ResumePatents(slot, answer) ==
    /\ pending[slot].handler = "patents"
    /\ End(slot, answer, PatentsSearchEnd(pending[slot], answer))

\* GET /api/trademarks/search
SearchTrademarks(query) == Begin("trademarks", query, TrademarksSearchBegin(query))

\* the TSDR call of a suspended trademark search settles
ResumeTrademarks(slot, answer) ==
    /\ pending[slot].handler = "trademarks"
    /\ End(slot, answer, TrademarksSearchEnd(pending[slot], answer))

\* POST /admin/clients
PostClient(body) ==
    /\ Step
    /\ LET r == AddClient(body)
       IN  /\ clientDatabase' = r.database
           /\ last' = [op |-> "post", request |-> body, status |-> r.status,
                       body |-> r.body]
    /\ UNCHANGED <<cache, now, pending>>

\* a delete that also clears the cache
DeleteClientByNameClearsCache(name) ==
    /\ Step
    /\ LET r == DeleteClient(name)
       IN  /\ clientDatabase' = r.database
           /\ last' = [op |-> "delete", name |-> name, status |-> r.status,
                       body |-> r.body]
    /\ cache' = [k \in {} |-> JsUndefined]
    /\ UNCHANGED <<now, pending>>

\* DELETE /admin/clients/:name
DeleteClientByName(name) ==
    /\ Step
    /\ LET r == DeleteClient(name)
       IN  /\ clientDatabase' = r.database
           /\ last' = [op |-> "delete", name |-> name, status |-> r.status,
                       body |-> r.body]
    /\ UNCHANGED <<cache, now, pending>>

\* time passes between two handler steps
Advance(d) ==
    /\ Step
    /\ now' = now + d
    /\ last' = [op |-> "clock"]
    /\ UNCHANGED <<clientDatabase, cache, pending>>

Next ==
    \/ \E q \in PatentQueries : SearchPatents(q)
    \/ \E i \in Slots, a \in PatentsViewAnswers : ResumePatents(i, a)
    \/ \E q \in TrademarkQueries : SearchTrademarks(q)
    \/ \E i \in Slots, a \in TsdrAnswers : ResumeTrademarks(i, a)
    \/ \E b \in ClientBodies : PostClient(b)
    \/ \E n \in DeleteNames : DeleteClientByName(n)
    \/ \E d \in ClockSteps : Advance(d)

Spec == Init /\ [][Next]_vars

----------------------------------------------------------------------------
(* What the properties below read off a state *)

\* the current state was produced by a step of a search handler
IsSearch == last.op \in {"patents", "trademarks"}

\* the query parameter the handler requires
Param == IF last.op = "patents" THEN "assignee" ELSE "owner"

\* the list of the client record the handler serves
ListField == IF last.op = "patents" THEN "patents" ELSE "trademarks"

\* the search passed parameter validation
HasTerm == IsSearch /\ Param \in DOMAIN last.query /\ last.query[Param] # <<>>

\* the search ran from its entry in this step
Started == HasTerm /\ last.phase \in {"sync", "await"}

\* the search sent its result in this step
Answered == IsSearch /\ last.phase \in {"sync", "resumed"} /\ last.status = 200

\* the normalized key of every name the exploration uses, written out
NormalForm ==
    (KidneyAide :> kidneyaide) @@ (Acme :> acme) @@ (ACME :> acme)
        @@ (AcmePunct :> acme) @@ (constructor :> constructor)

\* the override key of the search term
TermKey == NormalForm[last.query[Param]]

\* an override record exists for the search term
OverrideExists == TermKey \in DOMAIN clientDatabase

\* the entry the search found under its cache key was younger than the TTL
FoundLive == last.found # JsUndefined /\ now - last.found.timestamp < 3600 * 1000

\* the count the aggregate calls granted or registered
GrantedOrRegistered == IF last.op = "patents" THEN last.body.granted ELSE last.body.registered

----------------------------------------------------------------------------
(* The cache in front of the override store *)

\* C1, as claimed: whenever an override record exists for the normalized name,
\* a search of the name answers with source client_database and exactly the
\* list the record holds now.
C1_OverrideAlwaysServed ==
    (Started /\ OverrideExists) =>
        /\ last.status = 200
        /\ last.body.source = "client_database"
        /\ last.body.list = clientDatabase[TermKey][ListField]

\* C1, amended: when an override record exists for the normalized name and the
\* cache holds no live entry under the request's cache key, the search answers
\* with source client_database and exactly the list the record holds now.
C1_OverrideServedOnCacheMiss ==
    (Started /\ OverrideExists /\ ~FoundLive) =>
        /\ last.status = 200
        /\ last.body.source = "client_database"
        /\ last.body.list = clientDatabase[TermKey][ListField]

\* a posted record with a granted and a pending patent is served
C1_Witness ==
    /\ Started /\ OverrideExists /\ ~FoundLive
    /\ last.op = "patents"
    /\ last.body.list = <<PendingPatent, GrantedPatent>>

\* C2, as claimed: every result a search sends is stored under the request's
\* cache key, the empty result (source none) included.
C2_EveryOutcomeCached ==
    Answered =>
        /\ last.cacheKey \in DOMAIN cache
        /\ cache[last.cacheKey].data = last.body

\* C3: every result a search sends has
\* total = grantedOrRegistered + applications = length(list).
C3_TotalsAgree ==
    Answered =>
        /\ last.body.total = GrantedOrRegistered + last.body.applications
        /\ last.body.total = Len(last.body.list)

\* an upstream result with one granted patent and one application
C3_Witness ==
    /\ Answered
    /\ last.op = "patents"
    /\ last.body.source = "uspto_api"
    /\ last.body.granted = 1
    /\ last.body.applications = 1

\* C4: a search that finds a live entry under its cache key sends exactly the
\* stored result, calls no upstream and does not read the override store.
C4_LiveEntryServed ==
    (Started /\ FoundLive) =>
        /\ last.phase = "sync"
        /\ last.status = 200
        /\ last.body = last.found.data
        /\ last.calls = <<>>
        /\ last.lookups = 0
        /\ last.writes = 0

\* an upstream result is served again from the cache after time has passed
C4_Witness ==
    /\ Started /\ FoundLive
    /\ last.path = "cache"
    /\ last.body.source = "uspto_api"
    /\ now > last.found.timestamp

\* C5: the cache serves an entry if and only if now - createdAt < TTL; at an
\* age of TTL or more the search reads the override store and, with no
\* override, calls upstream.
C5_ServedIffYoungerThanTTL ==
    Started =>
        /\ (last.path = "cache") <=> FoundLive
        /\ ~FoundLive =>
             /\ last.lookups = 1
             /\ IF OverrideExists
                THEN last.path = "client_database" /\ last.calls = <<>>
                ELSE last.path \in {"await", "thrown"}

\* an entry of age exactly TTL is not served
C5_Witness ==
    /\ Started
    /\ last.found # JsUndefined
    /\ now - last.found.timestamp = 3600 * 1000
    /\ last.path = "client_database"

----------------------------------------------------------------------------
(* The override store in front of the upstream calls *)

\* C6: a search that starts while an override record exists for its
\* normalized name calls no upstream, whatever the cache holds.
C6_OverridePreemptsUpstream ==
    (Started /\ OverrideExists) =>
        /\ last.phase = "sync"
        /\ last.calls = <<>>

\* a punctuated spelling of a posted client's name is served from its record
C6_Witness ==
    /\ Started /\ OverrideExists
    /\ last.query[Param] = AcmePunct
    /\ last.path = "client_database"

\* the records an upstream answer carries: none when the call failed or the
\* answer lacks the list
Records(answer) ==
    IF "error" \in DOMAIN answer THEN <<>>
    ELSE IF "patents" \in DOMAIN answer.data THEN answer.data.patents
    ELSE IF "response" \in DOMAIN answer.data /\ "docs" \in DOMAIN answer.data.response
         THEN answer.data.response.docs
    ELSE <<>>

\* the search was suspended at its upstream call and ran to its end in this step
Resumed == IsSearch /\ last.phase = "resumed"

\* C7, as claimed: when the first patent adapter fails or returns no record,
\* a second adapter is called before the search answers.
C7_SecondAdapterCalled ==
    (Resumed /\ last.op = "patents" /\ Records(last.answer) = <<>>) =>
        Len(last.calls) >= 2

\* C8: a failed or empty upstream answer is absorbed: the search answers 200
\* with source none, total 0, an empty list and a message, after one call.
C8_FailureAbsorbed ==
    (Resumed /\ Records(last.answer) = <<>>) =>
        /\ last.status = 200
        /\ last.body.source = "none"
        /\ last.body.total = 0
        /\ last.body.list = <<>>
        /\ "message" \in DOMAIN last.body
        /\ Len(last.calls) = 1

\* the PatentsView call timed out and the search answered with source none
C8_Witness ==
    /\ Resumed
    /\ last.op = "patents"
    /\ "error" \in DOMAIN last.answer
    /\ last.body.source = "none"

----------------------------------------------------------------------------
(* Validation *)

\* the property is absent from the object or is the empty string
AbsentOrEmpty(obj, field) == field \notin DOMAIN obj \/ obj[field] = <<>>

\* C9: a search without its required parameter, or with an empty one, is
\* answered 400 before any cache read, cache write, override lookup or
\* upstream call, and leaves the cache and the override store as they were.
C9_MissingParameterRejected ==
    [][ (IsSearch' /\ last'.phase # "resumed" /\ AbsentOrEmpty(last'.query, Param')) =>
          /\ last'.status = 400
          /\ last'.reads = 0 /\ last'.writes = 0 /\ last'.lookups = 0
          /\ last'.calls = <<>>
          /\ cache' = cache
          /\ clientDatabase' = clientDatabase
          /\ pending' = pending ]_vars

\* a trademark search with an empty owner was rejected
C9_Witness ==
    /\ last.op = "trademarks"
    /\ "owner" \in DOMAIN last.query
    /\ last.query.owner = <<>>
    /\ last.status = 400

\* the list a posted body carries under field, empty when it carries none
Posted(body, field) == IF field \in DOMAIN body THEN body[field] ELSE <<>>

\* C10: an upsert without a name, or with an empty one, answers 400 and leaves
\* the override store as it was; any other upsert answers with
\* key = normalize(name), leaves under that key the posted name and lists (an
\* empty list for a missing one) and leaves every other record as it was.
C10_Upsert ==
    [][ last'.op = "post" =>
          LET body == last'.request
          IN  IF AbsentOrEmpty(body, "name")
              THEN last'.status = 400 /\ clientDatabase' = clientDatabase
              ELSE LET key == NormalForm[body.name]
                   IN  /\ last'.status = 200
                       /\ last'.body.success
                       /\ last'.body.key = key
                       /\ DOMAIN clientDatabase' = DOMAIN clientDatabase \cup {key}
                       /\ clientDatabase'[key] =
                            [name |-> body.name, patents |-> Posted(body, "patents"),
                             trademarks |-> Posted(body, "trademarks")]
                       /\ \A k \in DOMAIN clientDatabase \ {key} :
                            clientDatabase'[k] = clientDatabase[k] ]_vars

\* the seeded record was replaced by a body that carries no patents
C10_Witness ==
    /\ steps = 1
    /\ last.op = "post"
    /\ "name" \in DOMAIN last.request
    /\ last.request.name = KidneyAide
    /\ last.status = 200
    /\ clientDatabase[kidneyaide].patents = <<>>
    /\ clientDatabase[kidneyaide].trademarks = <<LiveMark>>

----------------------------------------------------------------------------
(* Deleting a client *)

\* C11, as claimed: a delete answers success if and only if a record existed
\* under normalize(name); it then removes that record, and otherwise answers
\* 404 and leaves the store as it was; records under other keys stay, and no
\* record is under normalize(name) afterwards.
C11_Delete ==
    [][ last'.op = "delete" =>
          LET key == NormalForm[last'.name]
          IN  /\ (last'.status = 200) <=> (key \in DOMAIN clientDatabase)
              /\ (last'.status = 404) <=> (key \notin DOMAIN clientDatabase)
              /\ key \notin DOMAIN clientDatabase => clientDatabase' = clientDatabase
              /\ DOMAIN clientDatabase' = DOMAIN clientDatabase \ {key}
              /\ \A k \in DOMAIN clientDatabase' : clientDatabase'[k] = clientDatabase[k]
      ]_vars

----------------------------------------------------------------------------
(* normalizeClientName as a function of its argument *)

MaxNameLen == 2

\* the characters the names are made of: letters of both cases, a digit,
\* punctuation and a blank
NameChars == {"a", "A", "B", "1", "-", " "}

\* the names of up to MaxNameLen characters
ShortNames == UNION {[1..n -> NameChars] : n \in 0..MaxNameLen}

KidneyAideInc ==
    <<"K","i","d","n","e","y","-","A","i","d","e",","," ","I","n","c",".">>
KIDNEYAIDE == <<"K","I","D","N","E","Y","A","I","D","E">>
KidneyDashAide == <<"K","i","d","n","e","y","-","A","i","d","e">>

\* the pairs of names that are normalized
NamePairs ==
    (ShortNames \X ShortNames)
        \cup {<<KidneyAideInc, KIDNEYAIDE>>, <<KidneyDashAide, KIDNEYAIDE>>}

NormalizeInit ==
    /\ clientDatabase = SeedDatabase
    /\ cache = [k \in {} |-> JsUndefined]
    /\ now = 0
    /\ pending = [i \in Slots |-> Idle]
    /\ steps = 0
    /\ \E pair \in NamePairs : last = [op |-> "names", a |-> pair[1], b |-> pair[2]]

\* both names are normalized, the first key once more
Normalize ==
    /\ last.op = "names"
    /\ last' = [op |-> "keys", a |-> last.a, b |-> last.b,
                keyA |-> normalizeClientName(last.a),
                keyB |-> normalizeClientName(last.b),
                keyKeyA |-> normalizeClientName(normalizeClientName(last.a))]
    /\ UNCHANGED <<clientDatabase, cache, now, pending, steps>>

NormalizeNext == Normalize

NormalizeSpec == NormalizeInit /\ [][NormalizeNext]_vars

\* the characters a key may hold
KeyChars ==
    {"a","b","c","d","e","f","g","h","i","j","k","l","m","n","o","p","q","r","s","t",
     "u","v","w","x","y","z","0","1","2","3","4","5","6","7","8","9"}

\* the letters and digits of a name, in order, the letters in lower case
LettersAndDigits(name) ==
    LET IsLetterOrDigit(c) == toLowerChar(c) \in KeyChars
        kept == SelectSeq(name, IsLetterOrDigit)
    IN  [i \in DOMAIN kept |-> toLowerChar(kept[i])]

\* the two names differ in letter case and in other characters only
SameLettersAndDigits == LettersAndDigits(last.a) = LettersAndDigits(last.b)

----------------------------------------------------------------------------
(* The seeded client *)

\* C13: the first request of the process, a patent search for KidneyAide,
\* answers source client_database, total 4, granted 0, applications 4, and
\* calls no upstream.
C13_SeededKidneyAide ==
    (steps = 1 /\ last.op = "patents" /\ HasTerm /\ last.query.assignee = KidneyAide) =>
        /\ last.status = 200
        /\ last.body.source = "client_database"
        /\ last.body.total = 4
        /\ last.body.granted = 0
        /\ last.body.applications = 4
        /\ last.calls = <<>>

\* the first request of the process was a patent search for KidneyAide
C13_Witness ==
    /\ steps = 1
    /\ DOMAIN cache # {}
    /\ last.op = "patents"
    /\ HasTerm
    /\ last.query.assignee = KidneyAide
    /\ last.phase = "sync"

----------------------------------------------------------------------------
(* Exceptions, counts and the cache as a map *)

\* the upstream answer of the resumed search carries a list with a null
\* element, which the mapping of the records cannot read
AnswerListUnreadable ==
    /\ Resumed
    /\ \E i \in DOMAIN Records(last.answer) : Records(last.answer)[i] = JsNull

\* C14, as claimed: a resolution in which an unexpected exception is raised
\* is answered successfully with source = error and the exception's message.
C14_UnexpectedExceptionIsSourceError ==
    AnswerListUnreadable =>
        /\ last.status = 200
        /\ last.body.source = "error"
        /\ "error" \in DOMAIN last.body

\* the statuses that count as registered, written out
RegisteredStatuses == {Registered, NotRegisteredYet}

\* the list a result carries
ResultList == last.body.list

\* the number a result is to report beside its total
CountedRecords ==
    IF last.op = "patents"
    THEN Cardinality({i \in DOMAIN ResultList :
            "patent_date" \in DOMAIN ResultList[i] /\ ResultList[i].patent_date # Null})
    ELSE Cardinality({i \in DOMAIN ResultList :
            "status" \in DOMAIN ResultList[i] /\ ResultList[i].status \in RegisteredStatuses})

C16_CacheMap ==
    [][ /\ DOMAIN cache \subseteq DOMAIN cache'
        /\ \A k \in DOMAIN cache :
              (cache'[k] # cache[k]) =>
                  IsSearch' /\ last'.writes = 1 /\ k = last'.cacheKey
        /\ (IsSearch' /\ last'.writes = 0) => cache' = cache
        /\ (IsSearch' /\ last'.writes = 1) =>
              /\ DOMAIN cache' = DOMAIN cache \cup {last'.cacheKey}
              /\ cache'[last'.cacheKey] = [data |-> last'.body, timestamp |-> now]
      ]_vars

\* a search read an expired entry and went on to its upstream call; the entry
\* is still in the cache
C16_Witness ==
    /\ Started
    /\ last.reads = 1
    /\ last.found # JsUndefined
    /\ ~FoundLive
    /\ last.cacheKey \in DOMAIN cache
    /\ cache[last.cacheKey] = last.found
    /\ last.writes = 0

----------------------------------------------------------------------------
(* Requests in flight *)

\* the searches suspended at their upstream call
InFlight == {i \in Slots : pending[i].handler # "idle"}

\* C17: a search that misses the cache and the override store goes to its own
\* upstream call whatever other searches of the same key are in flight, each
\* search in flight has made one call, and a search that writes the cache on
\* its return leaves its own result under the key, whatever was written there
\* since it started.
C17_LastWriteWins ==
    /\ \A i \in InFlight : Len(pending[i].calls) = 1
    /\ (Started /\ ~FoundLive /\ ~OverrideExists /\ TermKey # constructor) =>
          /\ last.phase = "await"
          /\ Len(last.calls) = 1
          /\ \E i \in InFlight : pending[i].cacheKey = last.cacheKey
    /\ (Resumed /\ last.writes = 1) =>
          /\ Len(last.calls) = 1
          /\ cache[last.cacheKey] = [data |-> last.body, timestamp |-> now]

\* a search returned and wrote over the entry that another search of the same
\* key, in flight at the same time, had written with a different result
C17_Witness ==
    /\ Resumed
    /\ last.writes = 1
    /\ last.found # JsUndefined
    /\ last.found.timestamp = now
    /\ last.found.data # last.body
    /\ cache[last.cacheKey].data = last.body

\* C18, as claimed: a search that passed parameter validation reads the cache
\* first, calls no upstream more than once and, once it has run to its end,
\* has sent one response.
C18_ValidatedSearchAnswers ==
    HasTerm =>
        /\ last.reads = 1
        /\ Len(last.calls) <= 1
        /\ last.phase \in {"sync", "resumed"} => last.status # 0

----------------------------------------------------------------------------
(* The two stores *)

\* the keys of the override store the exploration reaches
OverrideKeys == {kidneyaide, acme, constructor}

\* what holds of every delete, upsert and search: a delete that answers
\* success leaves no record under its key, and a key enters the store only by
\* an upsert of a name with that normal form
C19_RecordGoneUntilUpsert ==
    /\ (last'.op = "delete" /\ last'.status = 200) =>
          NormalForm[last'.name] \notin DOMAIN clientDatabase'
    /\ \A key \in OverrideKeys :
          (key \notin DOMAIN clientDatabase /\ key \in DOMAIN clientDatabase') =>
              /\ last'.op = "post"
              /\ last'.status = 200
              /\ NormalForm[last'.request.name] = key
    /\ (IsSearch' /\ last'.phase = "resumed" /\ last'.status = 200) =>
          last'.body.source # "client_database"

\* C19, as claimed: once a delete of a name has succeeded, and until a name
\* with the same key is upserted, every search of the name answers with a
\* source other than client_database.
C19_NoOverrideAfterDelete ==
    [][ /\ C19_RecordGoneUntilUpsert
        /\ (Started' /\ TermKey' \notin DOMAIN clientDatabase /\ last'.status = 200) =>
              last'.body.source # "client_database"
      ]_vars

\* C19, amended: once a delete of a name has succeeded, and until a name with
\* the same key is upserted, no record is under the key and every search of
\* the name that finds no live cache entry under its cache key answers with a
\* source other than client_database.
C19_NoOverrideAfterDeleteOnCacheMiss ==
    [][ /\ C19_RecordGoneUntilUpsert
        /\ (Started' /\ TermKey' \notin DOMAIN clientDatabase /\ ~FoundLive') =>
              /\ last'.path # "client_database"
              /\ last'.status = 200 => last'.body.source # "client_database"
      ]_vars

\* after a delete, a search found the expired entry of the deleted record's
\* result under its cache key and went on to its upstream call
C19_Witness ==
    /\ Started
    /\ TermKey = kidneyaide
    /\ TermKey \notin DOMAIN clientDatabase
    /\ last.found # JsUndefined
    /\ last.found.data.source = "client_database"
    /\ ~FoundLive
    /\ last.path = "await"

\* C20: an upsert and a delete leave the cache as it was, and a search, on any
\* path, leaves the override store as it was.
C20_DisjointWriters ==
    [][ /\ last'.op \in {"post", "delete"} => cache' = cache
        /\ IsSearch' => clientDatabase' = clientDatabase
      ]_vars

\* a delete removed a record while the cache held an entry, which is still
\* there
C20_Witness ==
    /\ last.op = "delete"
    /\ last.status = 200
    /\ kidneyaide \notin DOMAIN clientDatabase
    /\ DOMAIN cache # {}

====
